---- MODULE Spec2Model ----
(***************************************************************************)
(* A model of the ripple-rest client: ripplerest/client.py (the Client and *)
(* its _request method) and ripplerest/entities.py (the dict entities).    *)
(*                                                                         *)
(* Python values are tagged tuples <<type, payload>> so that None, bool,   *)
(* int, str, dict and list stay distinct.  A dict is a function from its   *)
(* keys (strings) to values: a key is present iff it is in the DOMAIN.     *)
(* A str is <<"str", s>> with s an atomic string, except the strings that  *)
(* go through urlencode, which are <<"chars", s>> with s the sequence of   *)
(* their characters, so that the encoding is computed character by         *)
(* character.                                                              *)
(***************************************************************************)
EXTENDS Integers, Sequences, FiniteSets, TLC

VARIABLES client, uuidCount, recorded, posted, last, gen

vars == <<client, uuidCount, recorded, posted, last, gen>>

(***************************************************************************)
(* Bounds                                                                  *)
(***************************************************************************)
\* how many times uuid.uuid4() may be drawn in one behaviour
MaxUuid == 2

(***************************************************************************)
(* Python values                                                           *)
(***************************************************************************)
PyNone == <<"NoneType">>
PyBool(b) == <<"bool", b>>
PyInt(n) == <<"int", n>>
\* the float whose shortest decimal digits are those of m, scaled by 10^-k:
\* m * 10^-k, m not a multiple of 10 unless k = 0
PyFloat(m, k) == <<"float", m, k>>
PyStr(s) == <<"str", s>>
PyChars(s) == <<"chars", s>>
\* a dict of keyword arguments in its iteration order: a sequence of
\* <<key, value>> items with distinct keys, the keys character sequences
PyItems(items) == <<"items", items>>
PyDict(f) == <<"dict", f>>
PyList(s) == <<"list", s>>

PyType(v) == v[1]

\* the empty dict {}
EmptyDict == [k \in {} |-> PyNone]

\* d[k] = v on a dict (insert or overwrite)
DictSet(d, k, v) == [x \in (DOMAIN d) \cup {k} |-> IF x = k THEN v ELSE d[x]]

\* dict.update(other)
DictUpdate(d, other) ==
  [x \in (DOMAIN d) \cup (DOMAIN other) |-> IF x \in DOMAIN other THEN other[x] ELSE d[x]]

\* del d[k]
DictDel(d, k) == [x \in (DOMAIN d) \ {k} |-> d[x]]

\* Python truth value of an object: bool(v)
Truthy(v) ==
  CASE PyType(v) = "NoneType" -> FALSE
    [] PyType(v) = "bool" -> v[2]
    [] PyType(v) = "int" -> v[2] # 0
    [] PyType(v) = "float" -> v[2] # 0
    [] PyType(v) = "str" -> v[2] # ""
    [] PyType(v) = "chars" -> v[2] # <<>>
    [] PyType(v) = "items" -> v[2] # <<>>
    [] PyType(v) = "dict" -> DOMAIN v[2] # {}
    [] PyType(v) = "list" -> Len(v[2]) > 0
    [] OTHER -> TRUE

(***************************************************************************)
(* Outcomes of a call: a returned value or a raised exception              *)
(***************************************************************************)
Return(v) == [kind |-> "return", value |-> v]
Raise(exc, arg) == [kind |-> "raise", exc |-> exc, arg |-> arg]

\* class RippleRESTException(Exception)
RippleRESTException == "RippleRESTException"

(***************************************************************************)
(* Client: the attributes of the object are the domain of the function     *)
(***************************************************************************)
\* a generator that returns the same token at every draw
Uuid4Collide(n) == PyStr("uuid4-1")

\* str(uuid.uuid4()): the n-th token drawn from the generator
Uuid4(n) == PyStr("uuid4-" \o ToString(n))

\* self.uuid = resource_id or str(uuid.uuid4())
set_resource_id(self, resource_id, n) ==
  DictSet(self, "uuid", IF Truthy(resource_id) THEN resource_id ELSE Uuid4(n + 1))

\* does set_resource_id draw a uuid4 for this argument
DrawsUuid(resource_id) == ~Truthy(resource_id)

\* Client.__init__(netloc, secure, resource_id)
Client__init__(netloc, secure, resource_id, n) ==
  LET s1 == DictSet(EmptyDict, "netloc", PyStr(netloc))
      s2 == DictSet(s1, "scheme", IF secure THEN PyStr("https") ELSE PyStr("http"))
  IN  set_resource_id(s2, resource_id, n)

\* attribute access obj.name
GetAttr(obj, name) ==
  IF name \in DOMAIN obj THEN Return(obj[name]) ELSE Raise("AttributeError", PyStr(name))

(***************************************************************************)
(* JSON: json.dumps and json.loads                                         *)
(***************************************************************************)
JNull == <<"null">>
JBool(b) == <<"boolean", b>>
JNum(n) == <<"number", n>>
JStr(s) == <<"string", s>>
JObj(f) == <<"object", f>>
JArr(s) == <<"array", s>>

\* a body that is JSON text, and a body that is not
JsonText(j) == <<"json", j>>
RawText(s) == <<"raw", s>>

RECURSIVE ToJson(_)
\* the JSON value json.dumps writes for a Python value; a dict subclass
\* (an entity) is written as a plain object
ToJson(v) ==
  CASE PyType(v) = "NoneType" -> JNull
    [] PyType(v) = "bool" -> JBool(v[2])
    [] PyType(v) = "int" -> JNum(v[2])
    [] PyType(v) = "str" -> JStr(v[2])
    [] PyType(v) = "list" -> JArr([i \in 1..Len(v[2]) |-> ToJson(v[2][i])])
    [] OTHER -> JObj([k \in DOMAIN v[2] |-> ToJson(v[2][k])])

RECURSIVE FromJson(_)
\* the Python value json.loads builds for a JSON value
FromJson(j) ==
  CASE j[1] = "null" -> PyNone
    [] j[1] = "boolean" -> PyBool(j[2])
    [] j[1] = "number" -> PyInt(j[2])
    [] j[1] = "string" -> PyStr(j[2])
    [] j[1] = "array" -> PyList([i \in 1..Len(j[2]) |-> FromJson(j[2][i])])
    [] OTHER -> PyDict([k \in DOMAIN j[2] |-> FromJson(j[2][k])])

\* json.dumps(data).encode('utf-8')
json_dumps(v) == JsonText(ToJson(v))

\* json.loads(text): ValueError when the text is not JSON
json_loads(text) ==
  IF text[1] = "json" THEN Return(FromJson(text[2])) ELSE Raise("ValueError", PyStr(text[2]))

\* obj[key] on a loaded value: KeyError on a dict without the key,
\* TypeError on a value that is not subscriptable by a string
GetItem(obj, key) ==
  IF PyType(obj) = "dict"
  THEN IF key \in DOMAIN obj[2] THEN Return(obj[2][key]) ELSE Raise("KeyError", PyStr(key))
  ELSE Raise("TypeError", PyStr(key))

(***************************************************************************)
(* Query strings: str(), quote_plus and urlencode over character sequences *)
(***************************************************************************)
Digit(d) ==
  CASE d = 0 -> "0" [] d = 1 -> "1" [] d = 2 -> "2" [] d = 3 -> "3" [] d = 4 -> "4"
    [] d = 5 -> "5" [] d = 6 -> "6" [] d = 7 -> "7" [] d = 8 -> "8" [] d = 9 -> "9"

RECURSIVE IntStr(_)
\* str(n) for a non-negative int
IntStr(n) == IF n < 10 THEN <<Digit(n)>> ELSE IntStr(n \div 10) \o <<Digit(n % 10)>>

\* str(v) as urlencode applies it to a value
Str(v) ==
  CASE PyType(v) = "NoneType" -> <<"N", "o", "n", "e">>
    [] PyType(v) = "bool" -> IF v[2] THEN <<"T", "r", "u", "e">> ELSE <<"F", "a", "l", "s", "e">>
    [] PyType(v) = "int" -> IntStr(v[2])
    [] OTHER -> v[2]

\* quote_plus of one character
QuoteChar(c) ==
  CASE c = " " -> <<"+">>
    [] c = "&" -> <<"%", "2", "6">>
    [] c = "=" -> <<"%", "3", "D">>
    [] c = "+" -> <<"%", "2", "B">>
    [] c = "%" -> <<"%", "2", "5">>
    [] OTHER -> <<c>>

RECURSIVE quote_plus(_)
quote_plus(s) == IF s = <<>> THEN <<>> ELSE QuoteChar(Head(s)) \o quote_plus(Tail(s))

RECURSIVE urlencode(_)
\* urlencode of the items of a dict, in the dict's order
urlencode(items) ==
  IF items = <<>> THEN <<>>
  ELSE LET kv == quote_plus(items[1][1]) \o <<"=">> \o quote_plus(Str(items[1][2]))
       IN  IF Len(items) = 1 THEN kv ELSE kv \o <<"&">> \o urlencode(Tail(items))

\* {k:v for k,v in parameters.items() if v is not None}
DropNone(items) == SelectSeq(items, LAMBDA kv : kv[2] # PyNone)

\* if type(v) is bool: parameters[k] = 'true' if v else 'false'
BoolLiterals(items) ==
  [i \in 1..Len(items) |->
     IF PyType(items[i][2]) = "bool"
     THEN <<items[i][1], PyChars(IF items[i][2][2] THEN <<"t", "r", "u", "e">>
                                                    ELSE <<"f", "a", "l", "s", "e">>)>>
     ELSE items[i]]

\* lines 116-121 of _request: the query string of a request.  parameters is
\* None or a dict; None and the empty dict are falsy, stay as they are and
\* give a URL with no query
EncodeQuery(parameters) ==
  IF ~Truthy(parameters) THEN <<>>
  ELSE urlencode(BoolLiterals(DropNone(parameters[2])))

(***************************************************************************)
(* Client._request                                                         *)
(***************************************************************************)
\* VERSION = 'v1'
VERSION == "v1"

\* o if it raised, else F of the value it returned
Then(o, F(_)) == IF o.kind = "raise" THEN o ELSE F(o.value)

\* a request with no body; no request, no answer and no reply of _request
NoBody == <<"nobody">>
NoRequest == [method |-> "none"]
NoResponse == [status |-> "none"]
NoReply == [kind |-> "none"]

\* a call that makes no request
Local(self, outcome) ==
  [self |-> self, request |-> NoRequest, resp |-> NoResponse, reply |-> NoReply,
   outcome |-> outcome]

\* a body in which the caller's keys win over the Client's
RequestBodyKeepCallerKeys(self, data, secret) ==
  IF data = PyNone THEN NoBody
  ELSE json_dumps(PyDict(DictUpdate([client_resource_id |-> self["uuid"], secret |-> secret],
                                    data[2])))

\* lines 125-129: the body of the request; data is None or a dict
RequestBody(self, data, secret) ==
  IF data = PyNone THEN NoBody
  ELSE json_dumps(PyDict(DictSet(DictSet(data[2], "client_resource_id", self["uuid"]),
                                 "secret", secret)))

\* lines 127-128: the object given as data once _request has assigned the
\* two keys in it; the assignments are made on the caller's object itself
DataAfterRequest(self, data, secret) ==
  <<data[1], DictSet(DictSet(data[2], "client_resource_id", self["uuid"]), "secret", secret)>>

\* lines 114-129: the request that urlopen is given
BuildRequest(self, path, parameters, data, secret, complete_path) ==
  [method   |-> IF data = PyNone THEN "GET" ELSE "POST",
   scheme   |-> self["scheme"],
   netloc   |-> self["netloc"],
   path     |-> IF complete_path THEN path ELSE "/" \o VERSION \o "/" \o path,
   query    |-> EncodeQuery(parameters),
   ctype    |-> IF data = PyNone THEN "" ELSE "application/json;charset=utf-8",
   body     |-> RequestBody(self, data, secret)]

\* an unwrapping that forgets to delete the success key
UnwrapKeepSuccess(response) ==
  Then(GetItem(response, "success"), LAMBDA ok :
    IF Truthy(ok) THEN Return(response)
    ELSE Then(GetItem(response, "message"), LAMBDA m : Raise(RippleRESTException, m)))

\* lines 136-140: the envelope of a 2xx response
Unwrap(response) ==
  Then(GetItem(response, "success"), LAMBDA ok :
    IF Truthy(ok) THEN Return(PyDict(DictDel(response[2], "success")))
    ELSE Then(GetItem(response, "message"), LAMBDA m : Raise(RippleRESTException, m)))

\* lines 133-135: the handler of HTTPError; what json.loads or ['message']
\* raises inside the handler leaves _request as it is
HTTPErrorHandler(body) ==
  Then(json_loads(body), LAMBDA e :
    Then(GetItem(e, "message"), LAMBDA m : Raise(RippleRESTException, m)))

\* lines 130-140: what _request does with the transport's answer.  resp.status
\* is "ok" (urlopen returned a response) or "http_error" (urlopen raised
\* HTTPError for a status that is not 2xx); a server that cannot be reached
\* is not modelled
HandleResponse(resp) ==
  IF resp.status = "ok" THEN Then(json_loads(resp.body), LAMBDA response : Unwrap(response))
  ELSE HTTPErrorHandler(resp.body)

\* a _request that replaces the token when the call fails
SelfAfterRequestRotates(self, outcome) ==
  IF outcome.kind = "raise" THEN DictSet(self, "uuid", PyStr("rotated")) ELSE self

\* the Client after _request: no line of it assigns an attribute of self
SelfAfterRequest(self, outcome) == self

\* Client._request: the Client after the call, the request sent, the answer
\* resp of the transport, what _request returned or raised (reply) and, for
\* the operation built on it, the outcome of the operation
_request(self, path, parameters, data, secret, complete_path, resp) ==
  LET o == HandleResponse(resp)
  IN  [self    |-> SelfAfterRequest(self, o),
       request |-> BuildRequest(self, path, parameters, data, secret, complete_path),
       resp    |-> resp,
       reply   |-> o,
       outcome |-> o]

(***************************************************************************)
(* Entities (ripplerest/entities.py): dict subclasses <<class, dict>>      *)
(***************************************************************************)
\* d without the keys in ks
DictDrop(d, ks) == [x \in (DOMAIN d) \ ks |-> d[x]]

\* d.get(k, None) for a parameter with default None
ArgOrNone(d, k) == IF k \in DOMAIN d THEN d[k] ELSE PyNone

\* is v a mapping that ** can unpack
IsMapping(v) == PyType(v) \in {"dict", "AccountSettings", "Amount", "Balance", "Notification",
                               "Payment", "Trustline"}

\* a binding that gives None to a required parameter without argument
BindArgsLenient(required, explicit, starred) ==
  IF ~IsMapping(starred) THEN Raise("TypeError", PyStr("argument after ** must be a mapping"))
  ELSE IF (DOMAIN explicit) \cap (DOMAIN starred[2]) # {}
  THEN Raise("TypeError", PyStr("got multiple values for keyword argument"))
  ELSE Return(PyDict(DictUpdate([k \in required |-> PyNone], DictUpdate(explicit, starred[2]))))

\* Python's binding of the arguments of f(k1=v1, ..., **starred) to a
\* signature with the required parameters `required` and a **kwargs: TypeError
\* when starred is not a mapping, when a keyword is given twice, and when a
\* required parameter has no argument
BindArgs(required, explicit, starred) ==
  IF ~IsMapping(starred) THEN Raise("TypeError", PyStr("argument after ** must be a mapping"))
  ELSE IF (DOMAIN explicit) \cap (DOMAIN starred[2]) # {}
  THEN Raise("TypeError", PyStr("got multiple values for keyword argument"))
  ELSE IF ~(required \subseteq (DOMAIN explicit) \cup (DOMAIN starred[2]))
  THEN Raise("TypeError", PyStr("missing required positional argument"))
  ELSE Return(PyDict(DictUpdate(explicit, starred[2])))

RECURSIVE Pow10(_)
Pow10(n) == IF n = 0 THEN 1 ELSE 10 * Pow10(n - 1)

RECURSIVE NumDigits(_)
\* the number of decimal digits of a natural number
NumDigits(n) == IF n < 10 THEN 1 ELSE 1 + NumDigits(n \div 10)

RECURSIVE Zeros(_)
Zeros(n) == IF n <= 0 THEN "" ELSE "0" \o Zeros(n - 1)

\* the n-digit decimal text of x, zero-padded on the left
Padded(x, n) == Zeros(n - NumDigits(x)) \o ToString(x)

\* m * 10^-k written without exponent: 0.000001, 1.5, 2.0
FixedPoint(m, k) ==
  IF k = 0 THEN ToString(m) \o ".0"
  ELSE ToString(m \div Pow10(k)) \o "." \o Padded(m % Pow10(k), k)

\* m * 10^-k written with an exponent of at least two digits: 1e-06, 2.5e-07
Scientific(m, k) ==
  LET n == NumDigits(m)
      e == n - k - 1
      lead == m \div Pow10(n - 1)
      rest == m % Pow10(n - 1)
  IN  ToString(lead) \o (IF n > 1 THEN "." \o Padded(rest, n - 1) ELSE "")
        \o "e" \o (IF e < 0 THEN "-" ELSE "+")
        \o Padded(IF e < 0 THEN 0 - e ELSE e, 2)

\* str(x) of a positive float (float.__repr__): the shortest digits, with an
\* exponent when the decimal point is more than 16 digits right of the first
\* digit or more than 3 zeros left of it
FloatStr(m, k) ==
  LET decpt == NumDigits(m) - k
  IN  IF decpt > 16 \/ decpt < -3 THEN Scientific(m, k) ELSE FixedPoint(m, k)

\* str(v) of a value stored through a str subclass or str()
PyStrOf(v) ==
  CASE PyType(v) = "str" -> v
    [] PyType(v) = "NoneType" -> PyStr("None")
    [] PyType(v) = "bool" -> PyStr(IF v[2] THEN "True" ELSE "False")
    [] PyType(v) = "int" -> PyStr(ToString(v[2]))
    [] PyType(v) = "float" -> PyStr(FloatStr(v[2], v[3]))
    [] OTHER -> PyStr("<object>")

\* class RippleAddress(str), class Currency(str)
RippleAddress(v) == PyStrOf(v)
Currency(v) == PyStrOf(v)

\* AccountSettings.__init__(self, account, **kwargs)
AccountSettings__init__(a) ==
  <<"AccountSettings", DictSet(DictDrop(a, {"account"}), "account", RippleAddress(a["account"]))>>

\* Amount.__init__(self, value, currency, issuer=None, counterparty=None, **kwargs)
Amount__init__(a) ==
  LET issuer == ArgOrNone(a, "issuer")
      counterparty == ArgOrNone(a, "counterparty")
      d0 == DictDrop(a, {"value", "currency", "issuer", "counterparty"})
      d1 == DictSet(d0, "value", PyStrOf(a["value"]))
      d2 == DictSet(d1, "currency", Currency(a["currency"]))
      d3 == IF Truthy(issuer) THEN DictSet(d2, "issuer", RippleAddress(issuer)) ELSE d2
      d4 == IF Truthy(counterparty) THEN DictSet(d3, "counterparty", RippleAddress(counterparty))
            ELSE d3
  IN  <<"Amount", d4>>

\* Balance.__init__(self, value, currency, issuer=None, counterparty=None, **kwargs)
Balance__init__(a) ==
  LET issuer == ArgOrNone(a, "issuer")
      counterparty == ArgOrNone(a, "counterparty")
      d0 == DictDrop(a, {"value", "currency", "issuer", "counterparty"})
      d1 == DictSet(d0, "value", a["value"])
      d2 == DictSet(d1, "currency", Currency(a["currency"]))
      d3 == DictSet(d2, "issuer", IF Truthy(issuer) THEN RippleAddress(issuer) ELSE PyNone)
      d4 == DictSet(d3, "counterparty",
                    IF Truthy(counterparty) THEN RippleAddress(counterparty) ELSE PyNone)
  IN  <<"Balance", d4>>

\* Trustline.__init__(self, account, counterparty, limit, currency, **kwargs)
Trustline__init__(a) ==
  LET d0 == DictDrop(a, {"account", "counterparty", "limit", "currency"})
      d1 == DictSet(d0, "account", RippleAddress(a["account"]))
      d2 == DictSet(d1, "counterparty", RippleAddress(a["counterparty"]))
      d3 == DictSet(d2, "limit", PyStrOf(a["limit"]))
      d4 == DictSet(d3, "currency", Currency(a["currency"]))
  IN  <<"Trustline", d4>>

\* the calls Class(k1=v1, ..., **starred)
AccountSettings(explicit, starred) ==
  Then(BindArgs({"account"}, explicit, starred), LAMBDA a : Return(AccountSettings__init__(a[2])))

Amount(explicit, starred) ==
  Then(BindArgs({"value", "currency"}, explicit, starred), LAMBDA a : Return(Amount__init__(a[2])))

Balance(explicit, starred) ==
  Then(BindArgs({"value", "currency"}, explicit, starred), LAMBDA a : Return(Balance__init__(a[2])))

Trustline(explicit, starred) ==
  Then(BindArgs({"account", "counterparty", "limit", "currency"}, explicit, starred),
       LAMBDA a : Return(Trustline__init__(a[2])))

\* Payment.__init__(self, source_account, destination_account,
\* destination_amount, **kwargs); the last line is Amount(**destination_amount)
Payment__init__(a) ==
  LET d0 == DictDrop(a, {"source_account", "destination_account", "destination_amount"})
      d1 == DictSet(d0, "source_account", RippleAddress(a["source_account"]))
      d2 == DictSet(d1, "destination_account", RippleAddress(a["destination_account"]))
  IN  Then(Amount(EmptyDict, a["destination_amount"]), LAMBDA amount :
        Return(<<"Payment", DictSet(d2, "destination_amount", amount)>>))

Payment(explicit, starred) ==
  Then(BindArgs({"source_account", "destination_account", "destination_amount"},
                explicit, starred),
       LAMBDA a : Payment__init__(a[2]))

(***************************************************************************)
(* The operations of the Client that return a value.  Each gives the       *)
(* request sent and the outcome of the call for a transport answer resp.   *)
(***************************************************************************)
\* a tuple returned by an operation
PyTuple(s) == <<"tuple", s>>

\* int(v) of a loaded value
PyIntOf(v) ==
  CASE PyType(v) = "int" -> Return(v)
    [] PyType(v) = "bool" -> Return(PyInt(IF v[2] THEN 1 ELSE 0))
    [] v = PyStr("7") -> Return(PyInt(7))
    [] PyType(v) = "str" -> Raise("ValueError", v)
    [] OTHER -> Raise("TypeError", PyStr("int() argument"))

\* the call r, then F on the response it returned
AndThen(r, F(_)) == [r EXCEPT !.outcome = Then(r.outcome, F)]

\* no object of the caller was passed to the call
NoObject == <<"nothing">>

\* the call r, with the object the caller passed to it as it is after the call
Passing(r, obj) == [k \in (DOMAIN r) \cup {"passed"} |-> IF k = "passed" THEN obj ELSE r[k]]

\* a post_payment, or post_trustline, that gives the caller's object itself
\* to _request as data
EntityAfterPostAliased(self, key, entity, secret) == DataAfterRequest(self, entity, secret)

\* lines 210 and 330: data={'payment': payment} is a new dict that holds the
\* caller's object under key; _request assigns its two keys in the new dict,
\* and the caller's object is the one still held under key
EntityAfterPost(self, key, entity, secret) ==
  DataAfterRequest(self, PyDict([k \in {key} |-> entity]), secret)[2][key]

\* get_account_settings(address, **kwargs): kwargs is not passed on
get_account_settings(self, address, kwargs, resp) ==
  AndThen(_request(self, "accounts/" \o address \o "/settings", PyNone, PyNone, PyNone, FALSE, resp),
          LAMBDA response :
            Then(GetItem(response, "settings"), LAMBDA st : AccountSettings(EmptyDict, st)))

\* post_account_settings(address, secret, **kwargs)
post_account_settings(self, address, secret, kwargs, resp) ==
  AndThen(_request(self, "accounts/" \o address \o "/settings", PyNone, PyDict(kwargs), secret,
                   FALSE, resp),
          LAMBDA response :
            Then(GetItem(response, "ledger"), LAMBDA ledger :
              Then(GetItem(response, "hash"), LAMBDA hash :
                Then(GetItem(response, "settings"), LAMBDA st :
                  Return(PyTuple(<<ledger, hash, st>>))))))

\* post_payment(secret, payment)
post_payment(self, secret, payment, resp) ==
  Passing(
    AndThen(_request(self, "payments", PyNone, PyDict([payment |-> payment]), secret, FALSE, resp),
            LAMBDA response :
              Then(GetItem(response, "client_resource_id"), LAMBDA id :
                Then(GetItem(response, "status_url"), LAMBDA url :
                  Return(PyTuple(<<id, url>>))))),
    EntityAfterPost(self, "payment", payment, secret))

\* get_payment(address, hash_or_uuid)
get_payment(self, address, hash_or_uuid, resp) ==
  AndThen(_request(self, "accounts/" \o address \o "/payments/" \o hash_or_uuid, PyNone, PyNone,
                   PyNone, FALSE, resp),
          LAMBDA response :
            Then(GetItem(response, "payment"), LAMBDA p : Payment(EmptyDict, p)))

\* post_trustline(address, secret, trustline, **kwargs): kwargs is not used
post_trustline(self, address, secret, trustline, kwargs, resp) ==
  Passing(
    AndThen(_request(self, "accounts/" \o address \o "/trustlines", PyNone,
                     PyDict([trustline |-> trustline]), secret, FALSE, resp),
            LAMBDA response :
              Then(GetItem(response, "trustline"), LAMBDA t :
                Then(Trustline(EmptyDict, t), LAMBDA tl :
                  Then(GetItem(response, "hash"), LAMBDA hash :
                    Then(GetItem(response, "ledger"), LAMBDA ledger :
                      Then(PyIntOf(ledger), LAMBDA n :
                        Return(PyTuple(<<tl, hash, n>>)))))))),
    EntityAfterPost(self, "trustline", trustline, secret))

\* get_notification(address, hash, **kwargs)
get_notification(self, address, hash, kwargs, resp) ==
  AndThen(_request(self, "accounts/" \o address \o "/notifications/" \o hash, PyItems(kwargs),
                   PyNone, PyNone, FALSE, resp),
          LAMBDA response : GetItem(response, "notification"))

\* get_connection_status()
get_connection_status(self, resp) ==
  AndThen(_request(self, "server/connected", PyNone, PyNone, PyNone, FALSE, resp),
          LAMBDA response : GetItem(response, "connected"))

\* get_server_info()
get_server_info(self, resp) ==
  _request(self, "server", PyNone, PyNone, PyNone, FALSE, resp)

\* get_uuid()
get_uuid(self, resp) ==
  _request(self, "uuid", PyNone, PyNone, PyNone, FALSE, resp)

\* get_transaction(hash)
get_transaction(self, hash, resp) ==
  AndThen(_request(self, "transactions/" \o hash, PyNone, PyNone, PyNone, FALSE, resp),
          LAMBDA response : GetItem(response, "transaction"))

(***************************************************************************)
(* The generator operations: get_balances, get_paths, get_payments and     *)
(* get_trustlines.  Calling one only builds the generator; its body runs   *)
(* from the first next() on.                                               *)
(***************************************************************************)
\* iter(v) in `for x in v`, for the values a response holds under a list key
IterOf(v) ==
  IF PyType(v) = "list" THEN Return(v)
  ELSE Raise("TypeError", PyStr("object is not iterable"))

RECURSIVE JoinStr(_, _)
\* sep.join(parts) on atomic strings
JoinStr(sep, parts) ==
  IF parts = <<>> THEN ""
  ELSE IF Len(parts) = 1 THEN parts[1]
  ELSE parts[1] \o sep \o JoinStr(sep, Tail(parts))

\* '+'.join(map(str, filter(bool, (value, currency, issuer))))
DestinationAmount(value, currency, issuer) ==
  LET elements == SelectSeq(<<value, currency, issuer>>, LAMBDA e : Truthy(e))
  IN  JoinStr("+", [i \in 1..Len(elements) |-> PyStrOf(elements[i])[2]])

\* the body of a generator up to its loop: the request and the list to walk
GenStart(self, g, resp) ==
  CASE g.op = "get_balances" ->
         AndThen(_request(self, "accounts/" \o g.args.address \o "/balances",
                          PyItems(g.args.kwargs), PyNone, PyNone, FALSE, resp),
                 LAMBDA response : Then(GetItem(response, "balances"), IterOf))
    [] g.op = "get_payments" ->
         AndThen(_request(self, "accounts/" \o g.args.address \o "/payments",
                          PyItems(g.args.kwargs), PyNone, PyNone, FALSE, resp),
                 LAMBDA response : Then(GetItem(response, "payments"), IterOf))
    [] g.op = "get_trustlines" ->
         AndThen(_request(self, "accounts/" \o g.args.address \o "/trustlines",
                          PyItems(g.args.kwargs), PyNone, PyNone, FALSE, resp),
                 LAMBDA response : Then(GetItem(response, "trustlines"), IterOf))
    [] OTHER ->
         \* get_paths: line 234 calls join, a name that is not defined
         IF Truthy(g.args.source_currencies)
         THEN Local(self, Raise("NameError", PyStr("join")))
         ELSE AndThen(_request(self, "accounts/" \o g.args.address \o "/payments/paths/"
                                     \o g.args.destination_account \o "/"
                                     \o DestinationAmount(g.args.value, g.args.currency,
                                                          g.args.issuer),
                               PyNone, PyNone, PyNone, FALSE, resp),
                      LAMBDA response : Then(GetItem(response, "payments"), IterOf))

\* the expression a generator yields for one element of the list
GenItem(g, item) ==
  CASE g.op = "get_balances" -> Balance([issuer |-> PyStr(g.args.address)], item)
    [] g.op = "get_payments" ->
         Then(GetItem(item, "payment"), LAMBDA p :
           Then(Payment(EmptyDict, p), LAMBDA pay :
             Then(GetItem(item, "client_resource_id"), LAMBDA id :
               Return(PyTuple(<<pay, id>>)))))
    [] g.op = "get_trustlines" -> Trustline(EmptyDict, item)
    [] OTHER -> Payment(EmptyDict, item)

\* no generator
NoGen == [op |-> "none"]

\* a generator that was just built by a call of op
NewGen(op, args) ==
  [op |-> op, args |-> args, pc |-> "created", requests |-> 0, fetched |-> FALSE,
   items |-> <<>>, idx |-> 0, yielded |-> <<>>, exc |-> "none"]

\* the generator after it raised exc (StopIteration when the loop ended)
GenFinish(g, exc) == [g EXCEPT !.pc = "finished", !.exc = exc]

\* the generator g resumed at element i of its list: it yields the element's
\* object and suspends, or raises and is finished
GenResume(g, i, r) ==
  IF i > Len(g.items)
  THEN [r EXCEPT !.outcome = Raise("StopIteration", PyNone)] @@
       [gen |-> GenFinish([g EXCEPT !.idx = i], "StopIteration")]
  ELSE LET o == GenItem(g, g.items[i])
       IN  [r EXCEPT !.outcome = o] @@
           [gen |-> IF o.kind = "raise" THEN GenFinish([g EXCEPT !.idx = i], o.exc)
                    ELSE [g EXCEPT !.pc = "suspended", !.idx = i,
                                   !.yielded = Append(g.yielded, o.value)]]

\* the first next(g): the body runs from its first line to the first yield
GenFirst(self, g, resp) ==
  LET r == GenStart(self, g, resp)
      g1 == [g EXCEPT !.requests = IF r.request = NoRequest THEN 0 ELSE 1]
  IN  IF r.outcome.kind = "raise"
      THEN r @@ [gen |-> GenFinish(g1, r.outcome.exc)]
      ELSE GenResume([g1 EXCEPT !.fetched = TRUE, !.items = r.outcome.value[2]], 1, r)

\* a later next(g): the loop goes on with the next element of the list
GenLater(self, g) == GenResume(g, g.idx + 1, Local(self, NoReply))

(***************************************************************************)
(* Inputs of the calls and answers of the transport                        *)
(***************************************************************************)
Netlocs == {"localhost:5990", "example.com:2334"}
\* the resource_id argument: omitted (None), a token, the empty string
ResourceIdArgs == {PyNone, PyStr("id-a"), PyStr("")}
Addresses == {"rAlice", "rBob"}
Account == "rAlice"
Secrets == {PyStr("sAlice"), PyStr("sBob")}
Hashes == {"F00D"}
Messages == {"X"}

\* keyword arguments of the read operations, as item lists
KeyCurrency == <<"c", "u", "r">>
KeyPage == <<"p", "g">>
SomeKwargs == {<<<<KeyCurrency, PyChars(<<"U", "S", "D">>)>>, <<KeyPage, PyNone>>>>}

\* keyword arguments of post_account_settings
SettingsKwargs ==
  {[disallow_xrp |-> PyBool(TRUE)],
   [client_resource_id |-> PyStr("id-caller"), url |-> PyStr("example.org")]}

Ok(obj) == [status |-> "ok", body |-> JsonText(JObj(obj))]
EnvelopeFailure(m) == Ok([success |-> JBool(FALSE), message |-> JStr(m)])
HttpErrorJson(m) ==
  [status |-> "http_error", body |-> JsonText(JObj([success |-> JBool(FALSE), message |-> JStr(m)]))]
HttpErrorNoMessage ==
  [status |-> "http_error", body |-> JsonText(JObj([error |-> JStr("Internal Server Error")]))]
HttpErrorHtml == [status |-> "http_error", body |-> RawText("<html>502 Bad Gateway</html>")]

\* the answers that report a failure
Failures ==
  {EnvelopeFailure(m) : m \in Messages} \cup
  {HttpErrorJson("Y"), HttpErrorNoMessage, HttpErrorHtml}

JAmountXRP == JObj([value |-> JStr("1"), currency |-> JStr("XRP")])
JPaymentFull ==
  JObj([source_account |-> JStr("rAlice"), destination_account |-> JStr("rBob"),
        destination_amount |-> JAmountXRP, state |-> JStr("validated")])
JPaymentNoAmount ==
  JObj([source_account |-> JStr("rAlice"), destination_account |-> JStr("rBob")])
JPaymentNoSource ==
  JObj([destination_account |-> JStr("rBob"), destination_amount |-> JAmountXRP])
JPaymentNoDestination ==
  JObj([source_account |-> JStr("rAlice"), destination_amount |-> JAmountXRP])
JPayments == {JPaymentFull, JPaymentNoAmount, JPaymentNoSource, JPaymentNoDestination}

JTrustline ==
  JObj([account |-> JStr("rAlice"), counterparty |-> JStr("rGate"), limit |-> JNum(5),
        currency |-> JStr("USD")])
JSettings == JObj([account |-> JStr("rAlice"), disallow_xrp |-> JBool(FALSE)])

\* the records of a balances array
JBalances ==
  {JObj([value |-> JStr("2"), currency |-> JStr("USD"), counterparty |-> JStr("rGate")]),
   JObj([value |-> JStr("3"), currency |-> JStr("EUR"), issuer |-> JStr("rGate")])}

\* the payments a caller builds to submit
CallerAmount == <<"dict", [value |-> PyInt(1), currency |-> PyStr("XRP")]>>
CallerPayments ==
  {Payment([source_account |-> PyStr("rAlice"), destination_account |-> PyStr(d),
            destination_amount |-> CallerAmount], PyDict(EmptyDict)).value : d \in {"rBob"}}
CallerTrustline ==
  Trustline([account |-> PyStr("rAlice"), counterparty |-> PyStr("rGate"), limit |-> PyInt(5),
             currency |-> PyStr("USD")], PyDict(EmptyDict)).value

\* the keyword arguments a caller gives the Payment constructor
PaymentArgs ==
  LET full == [source_account |-> PyStr("rAlice"), destination_account |-> PyStr("rBob"),
               destination_amount |-> CallerAmount, memo |-> PyStr("rent")]
  IN  {full, DictDel(full, "source_account"), DictDel(full, "destination_account"),
       DictDel(full, "destination_amount")}

\* arrays of at most n elements of S
SeqsUpTo(S, n) == UNION {[1..k -> S] : k \in 0..n}

\* how many elements a list in a response may have
MaxItems == 2

(***************************************************************************)
(* The state machine.  Under Spec the server may answer anything and keeps *)
(* no record; SpecDedup has the deduplicating server of the module         *)
(* docstring; SpecQuery has the read operations with many query           *)
(* parameters.                                                             *)
(*   client     the Client object (its attributes)                         *)
(*   uuidCount  how many tokens uuid.uuid4() has produced                  *)
(*   recorded   the client_resource_ids the deduplicating server recorded  *)
(*   posted     whether that server accepted a payment since the resource  *)
(*              id was last set                                            *)
(*   last       the last call: operation, arguments, the Client before it, *)
(*              the request it sent, its outcome, and the Payment or       *)
(*              Trustline the caller passed to it as it is after the call  *)
(*   gen        the generator the caller holds; the caller holds one at a  *)
(*              time and drops it when it makes another call               *)
(***************************************************************************)
NoClient == EmptyDict

Called(op, args, pre, r) ==
  [op |-> op, args |-> args, pre |-> pre, request |-> r.request, resp |-> r.resp,
   reply |-> r.reply, outcome |-> r.outcome,
   passed |-> IF "passed" \in DOMAIN r THEN r.passed ELSE NoObject]

Init ==
  \E netloc \in Netlocs, secure \in BOOLEAN, resource_id \in ResourceIdArgs :
    /\ client = Client__init__(netloc, secure, resource_id, 0)
    /\ uuidCount = IF DrawsUuid(resource_id) THEN 1 ELSE 0
    /\ recorded = {}
    /\ posted = FALSE
    /\ last = Called("__init__",
                     [netloc |-> netloc, secure |-> secure, resource_id |-> resource_id],
                     NoClient, Local(client, Return(PyNone)))
    /\ gen = NoGen

\* a call r of an operation that returns a value
Plain(op, args, r) ==
  /\ client' = r.self
  /\ last' = Called(op, args, client, r)
  /\ gen' = NoGen
  /\ UNCHANGED <<uuidCount, recorded, posted>>

SetResourceId ==
  \E resource_id \in ResourceIdArgs :
    /\ DrawsUuid(resource_id) => uuidCount < MaxUuid
    /\ client' = set_resource_id(client, resource_id, uuidCount)
    /\ uuidCount' = IF DrawsUuid(resource_id) THEN uuidCount + 1 ELSE uuidCount
    /\ posted' = FALSE
    /\ last' = Called("set_resource_id", [resource_id |-> resource_id], client,
                      Local(client, Return(PyNone)))
    /\ gen' = NoGen
    /\ UNCHANGED recorded

\* the caller builds a Payment
NewPayment ==
  \E a \in PaymentArgs :
    Plain("Payment", [kwargs |-> a], Local(client, Payment(a, PyDict(EmptyDict))))

GetAccountSettings(K) ==
  \E address \in {Account}, kwargs \in K,
     resp \in Failures \cup {Ok([success |-> JBool(TRUE), settings |-> JSettings])} :
    Plain("get_account_settings", [address |-> address, kwargs |-> kwargs],
             get_account_settings(client, address, kwargs, resp))

PostAccountSettings ==
  \E address \in {Account}, secret \in Secrets, kwargs \in SettingsKwargs,
     resp \in Failures \cup {Ok([success |-> JBool(TRUE), ledger |-> JStr("7"),
                                 hash |-> JStr("F00D"), settings |-> JSettings])} :
    Plain("post_account_settings", [address |-> address, secret |-> secret, kwargs |-> kwargs],
             post_account_settings(client, address, secret, kwargs, resp))

\* the answer of a server to a payment it accepts
Accepted(self) ==
  Ok([success |-> JBool(TRUE), client_resource_id |-> ToJson(self["uuid"]),
      status_url |-> JStr("/v1/accounts/rAlice/payments/...")])

\* post_payment against a server that may answer anything
PostPayment ==
  \E secret \in Secrets, payment \in CallerPayments, resp \in Failures \cup {Accepted(client)} :
    Plain("post_payment", [secret |-> secret, payment |-> payment],
          post_payment(client, secret, payment, resp))

GetPayment ==
  \E address \in {Account}, id \in Hashes,
     resp \in Failures \cup {Ok([success |-> JBool(TRUE), payment |-> p]) : p \in JPayments} :
    Plain("get_payment", [address |-> address, hash_or_uuid |-> id],
             get_payment(client, address, id, resp))

PostTrustline ==
  \E address \in {Account}, secret \in Secrets,
     resp \in Failures \cup {Ok([success |-> JBool(TRUE), trustline |-> JTrustline,
                                 hash |-> JStr("F00D"), ledger |-> l]) : l \in {JStr("7")}} :
    Plain("post_trustline", [address |-> address, secret |-> secret,
                                trustline |-> CallerTrustline],
             post_trustline(client, address, secret, CallerTrustline, EmptyDict, resp))

GetNotification(K) ==
  \E address \in {Account}, hash \in Hashes, kwargs \in K,
     resp \in Failures \cup {Ok([success |-> JBool(TRUE),
                                 notification |-> JObj([type |-> JStr("payment")])])} :
    Plain("get_notification", [address |-> address, hash |-> hash, kwargs |-> kwargs],
             get_notification(client, address, hash, kwargs, resp))

GetConnectionStatus ==
  \E resp \in Failures \cup {Ok([success |-> JBool(TRUE), connected |-> JBool(TRUE)])} :
    Plain("get_connection_status", EmptyDict, get_connection_status(client, resp))

GetServerInfo ==
  \E resp \in Failures \cup {Ok([success |-> JBool(TRUE),
                                 rippled_server_url |-> JStr("wss://s1.ripple.com")])} :
    Plain("get_server_info", EmptyDict, get_server_info(client, resp))

GetUuid ==
  \E resp \in Failures \cup {Ok([success |-> JBool(TRUE), uuid |-> JStr("server-uuid")])} :
    Plain("get_uuid", EmptyDict, get_uuid(client, resp))

GetTransaction ==
  \E hash \in Hashes,
     resp \in Failures \cup {Ok([success |-> JBool(TRUE),
                                 transaction |-> JObj([type |-> JStr("payment")])])} :
    Plain("get_transaction", [hash |-> hash], get_transaction(client, hash, resp))

\* the calls that build a generator: nothing of the body runs yet
CallGenerator(op, args) ==
  /\ last' = Called(op, args, client, Local(client, Return(<<"generator", op>>)))
  /\ gen' = NewGen(op, args)
  /\ UNCHANGED <<client, uuidCount, recorded, posted>>

GetBalances(K) ==
  \E address \in Addresses, kwargs \in K :
    CallGenerator("get_balances", [address |-> address, kwargs |-> kwargs])

GetPayments(K) ==
  \E address \in {Account}, kwargs \in K :
    CallGenerator("get_payments", [address |-> address, kwargs |-> kwargs])

GetTrustlines(K) ==
  \E address \in {Account}, kwargs \in K :
    CallGenerator("get_trustlines", [address |-> address, kwargs |-> kwargs])

GetPaths ==
  \E issuer \in {PyNone, PyStr("rGate")},
     source_currencies \in {PyNone, PyList(<<PyTuple(<<PyStr("USD"), PyStr("rGate")>>)>>)} :
    CallGenerator("get_paths",
                  [address |-> "rAlice", destination_account |-> "rBob", value |-> PyInt(1),
                   currency |-> PyStr("USD"), issuer |-> issuer,
                   source_currencies |-> source_currencies])

\* the answers to the request of a generator
GenAnswers(op) ==
  Failures \cup
  CASE op = "get_balances" ->
         {Ok([success |-> JBool(TRUE), balances |-> JArr(b)]) : b \in SeqsUpTo(JBalances, MaxItems)}
    [] op = "get_payments" ->
         {Ok([success |-> JBool(TRUE),
              payments |-> JArr([i \in DOMAIN ps |->
                                  JObj([client_resource_id |-> JStr(""), payment |-> ps[i]])])]) :
            ps \in SeqsUpTo({JPaymentFull, JPaymentNoAmount}, MaxItems)}
    [] op = "get_trustlines" ->
         {Ok([success |-> JBool(TRUE), trustlines |-> JArr(t)]) :
            t \in SeqsUpTo({JTrustline}, MaxItems)}
    [] OTHER ->
         {Ok([success |-> JBool(TRUE), payments |-> JArr(ps)]) :
            ps \in SeqsUpTo({JPaymentFull, JPaymentNoSource}, MaxItems)}

\* next(gen) on a generator that is not finished; the first next sends the
\* request
GenNext ==
  /\ gen.op # "none"
  /\ gen.pc # "finished"
  /\ \E r \in (IF gen.pc = "created"
               THEN {GenFirst(client, gen, resp) : resp \in GenAnswers(gen.op)}
               ELSE {GenLater(client, gen)}) :
       /\ client' = r.self
       /\ gen' = r.gen
       /\ last' = Called("next", [op |-> gen.op], client, r)
  /\ UNCHANGED <<uuidCount, recorded, posted>>

Next ==
  \/ SetResourceId
  \/ NewPayment
  \/ GetAccountSettings(SomeKwargs)
  \/ PostAccountSettings
  \/ PostPayment
  \/ GetPayment
  \/ PostTrustline
  \/ GetNotification(SomeKwargs)
  \/ GetConnectionStatus
  \/ GetServerInfo
  \/ GetUuid
  \/ GetTransaction
  \/ GetBalances(SomeKwargs)
  \/ GetPayments(SomeKwargs)
  \/ GetTrustlines(SomeKwargs)
  \/ GetPaths
  \/ GenNext

Spec == Init /\ [][Next]_vars

(***************************************************************************)
(* The deduplicating server (client.py lines 32-46): it records the        *)
(* client_resource_id of every payment it accepts and rejects a payment    *)
(* whose client_resource_id it has recorded                                *)
(***************************************************************************)
DuplicateMessage == "A record already exists in the database for a payment from this account with the same client_resource_id"

\* the client_resource_id in the body of a request
SentResourceId(request) == request.body[2][2]["client_resource_id"]

\* the answers of the server to a payment request; it may reject in the
\* envelope or with an error status
DedupAnswers(rec, request) ==
  IF SentResourceId(request) \in rec
  THEN {EnvelopeFailure(DuplicateMessage), HttpErrorJson(DuplicateMessage)}
  ELSE {Ok([success |-> JBool(TRUE), client_resource_id |-> SentResourceId(request),
            status_url |-> JStr("/v1/accounts/rAlice/payments/...")])}

PostPaymentDedup ==
  \E secret \in Secrets, payment \in CallerPayments :
    LET request == BuildRequest(client, "payments", PyNone, PyDict([payment |-> payment]),
                                secret, FALSE)
    IN  \E resp \in DedupAnswers(recorded, request) :
          LET r == post_payment(client, secret, payment, resp)
          IN  /\ client' = r.self
              /\ last' = Called("post_payment", [secret |-> secret, payment |-> payment], client, r)
              /\ gen' = NoGen
              /\ recorded' = IF resp.status = "ok" /\ SentResourceId(request) \notin recorded
                             THEN recorded \cup {SentResourceId(request)} ELSE recorded
              /\ posted' = (posted \/ r.outcome.kind = "return")
              /\ UNCHANGED uuidCount

NextDedup ==
  \/ SetResourceId
  \/ PostPaymentDedup

SpecDedup == Init /\ [][NextDedup]_vars

(***************************************************************************)
(* The read operations that take keyword arguments, with many of them      *)
(***************************************************************************)
\* how many keyword arguments a call is given
MaxParams == 2

QueryKeys == {KeyCurrency, KeyPage}
QueryValues == {PyNone, PyBool(TRUE), PyBool(FALSE), PyInt(12), PyChars(<<"a", " ", "&">>)}

\* the dicts of at most MaxParams keyword arguments, in every order
ManyKwargs ==
  {kw \in SeqsUpTo(QueryKeys \X QueryValues, MaxParams) :
     \A i, j \in DOMAIN kw : i # j => kw[i][1] # kw[j][1]}

\* one call of a read operation on a new Client, and the next()s of the
\* generator if the call built one
NextQuery ==
  \/ last.op = "__init__" /\ GetAccountSettings(ManyKwargs)
  \/ last.op = "__init__" /\ GetNotification(ManyKwargs)
  \/ last.op = "__init__" /\ GetBalances(ManyKwargs)
  \/ last.op = "__init__" /\ GetPayments(ManyKwargs)
  \/ last.op = "__init__" /\ GetTrustlines(ManyKwargs)
  \/ GenNext

SpecQuery == Init /\ [][NextQuery]_vars

(***************************************************************************)
(* Properties                                                              *)
(***************************************************************************)
WriteOps == {"post_payment", "post_account_settings", "post_trustline"}

IsRemoteError(o) == o.kind = "raise" /\ o.exc = RippleRESTException

\* C1: against the deduplicating server, a post_payment made after an
\* accepted one with no set_resource_id in between fails with
\* RippleRESTException, and a post_payment made right after a
\* set_resource_id() with no argument that followed an accepted payment
\* succeeds.
C1_ResubmitFailsResetSucceeds ==
  [][/\ (posted /\ last'.op = "post_payment") => IsRemoteError(last'.outcome)
     /\ (/\ recorded # {}
         /\ last.op = "set_resource_id"
         /\ last.args.resource_id = PyNone
         /\ last'.op = "post_payment") => last'.outcome.kind = "return"]_vars

\* two payments were accepted (under two tokens) and a third submission
\* under a recorded token was rejected
C1_Witness ==
  /\ last.op = "post_payment"
  /\ IsRemoteError(last.outcome)
  /\ Cardinality(recorded) >= 2

\* C2: a step that is not a set_resource_id leaves the resource id, the
\* netloc and the scheme of the Client as they were, whether the operation
\* returned or raised.
C2_OnlySetResourceIdChangesClient ==
  [][last'.op # "set_resource_id" => client' = client]_vars

\* a payment submission failed and the Client still holds the token it sent
C2_Witness ==
  /\ last.op = "post_payment"
  /\ last.outcome.kind = "raise"
  /\ client = last.pre
  /\ SentResourceId(last.request) = ToJson(client["uuid"])

\* C3: the body of every write operation is a JSON object whose
\* client_resource_id is the resource id of the Client at the call and whose
\* secret is the secret argument, beside the keys of the caller; every
\* request of a read operation has no body.
C3_BodyCarriesTokenAndSecret ==
  /\ last.op \in WriteOps =>
       /\ last.request.method = "POST"
       /\ last.request.body[1] = "json"
       /\ last.request.body[2][1] = "object"
       /\ LET body == last.request.body[2][2]
              sent == CASE last.op = "post_payment" -> [payment |-> last.args.payment]
                        [] last.op = "post_trustline" -> [trustline |-> last.args.trustline]
                        [] OTHER -> last.args.kwargs
          IN  /\ {"client_resource_id", "secret"} \subseteq DOMAIN body
              /\ body["client_resource_id"] = JStr(last.pre["uuid"][2])
              /\ body["secret"] = JStr(last.args.secret[2])
              /\ \A k \in (DOMAIN sent) \ {"client_resource_id", "secret"} :
                   k \in DOMAIN body /\ body[k] = ToJson(sent[k])
  /\ (last.op \notin WriteOps /\ last.request # NoRequest) =>
       /\ last.request.method = "GET"
       /\ last.request.body = NoBody

\* post_account_settings was called with a client_resource_id keyword that
\* is not the token of the Client
C3_Witness ==
  /\ last.op = "post_account_settings"
  /\ "client_resource_id" \in DOMAIN last.args.kwargs
  /\ last.args.kwargs["client_resource_id"] # last.pre["uuid"]

\* C4: when the answer is a 2xx response with the envelope {success: false,
\* message: X} the operation raises RippleRESTException(X); when the envelope
\* has success: true, _request returns to the operation the envelope without
\* the success key and with every other key as it was.
C4_Envelope ==
  (last.resp.status = "ok" /\ last.resp.body[1] = "json") =>
    LET env == last.resp.body[2][2]
    IN  /\ (env["success"] = JBool(FALSE)) =>
             /\ last.reply = Raise(RippleRESTException, PyStr(env["message"][2]))
             /\ last.outcome = last.reply
        /\ (env["success"] = JBool(TRUE)) =>
             /\ last.reply.kind = "return"
             /\ PyType(last.reply.value) = "dict"
             /\ DOMAIN last.reply.value[2] = (DOMAIN env) \ {"success"}
             /\ \A k \in (DOMAIN env) \ {"success"} : last.reply.value[2][k] = FromJson(env[k])

\* a write operation was answered 200 with {success: false, message: "X"}
C4_Witness ==
  /\ last.op = "post_trustline"
  /\ last.resp = EnvelopeFailure("X")
  /\ last.outcome = Raise(RippleRESTException, PyStr("X"))

\* C5: when the transport answers with an error status, the operation
\* raises RippleRESTException, with the message of the body when the body is
\* a JSON object that has one; no other exception reaches the caller.
C5_ErrorStatusIsRemoteError ==
  last.resp.status = "http_error" =>
    /\ IsRemoteError(last.outcome)
    /\ (/\ last.resp.body[1] = "json"
        /\ last.resp.body[2][1] = "object"
        /\ "message" \in DOMAIN last.resp.body[2][2]) =>
         last.outcome.arg = FromJson(last.resp.body[2][2]["message"])

\* C6: set_resource_id(id) with a supplied id, the empty string included,
\* makes the resource id equal to id; set_resource_id() with no argument
\* makes it a token other than the one held before.
C6_SetResourceIdSetsGivenValue ==
  last.op = "set_resource_id" =>
    IF last.args.resource_id # PyNone
    THEN client["uuid"] = last.args.resource_id
    ELSE client["uuid"] # last.pre["uuid"]

\* C7: a Client constructed with resource_id u and netloc n has the
\* attributes _resource_id = u and netloc = n, and scheme 'https' if secure
\* was true, 'http' otherwise.
C7_ConstructorAttributes ==
  last.op = "__init__" =>
    /\ last.args.resource_id # PyNone =>
         GetAttr(client, "_resource_id") = Return(last.args.resource_id)
    /\ GetAttr(client, "netloc") = Return(PyStr(last.args.netloc))
    /\ GetAttr(client, "scheme") =
         Return(PyStr(IF last.args.secure THEN "https" ELSE "http"))

(***************************************************************************)
(* Reading a query string back: the inverse of urlencode                   *)
(***************************************************************************)
RECURSIVE SplitOn(_, _)
\* s.split(c) on a character sequence
SplitOn(s, c) ==
  IF s = <<>> THEN <<<<>>>>
  ELSE LET rest == SplitOn(Tail(s), c)
       IN  IF Head(s) = c THEN <<<<>>>> \o rest
           ELSE <<<<Head(s)>> \o rest[1]>> \o Tail(rest)

\* the character a %XY escape stands for
Unescape(x, y) ==
  CASE x = "2" /\ y = "6" -> "&"
    [] x = "3" /\ y = "D" -> "="
    [] x = "2" /\ y = "B" -> "+"
    [] x = "2" /\ y = "5" -> "%"
    [] OTHER -> "?"

RECURSIVE unquote_plus(_)
unquote_plus(s) ==
  IF s = <<>> THEN <<>>
  ELSE IF Head(s) = "+" THEN <<" ">> \o unquote_plus(Tail(s))
  ELSE IF Head(s) = "%" /\ Len(s) >= 3
       THEN <<Unescape(s[2], s[3])>> \o unquote_plus(SubSeq(s, 4, Len(s)))
  ELSE <<Head(s)>> \o unquote_plus(Tail(s))

\* parse_qsl(query, keep_blank_values=True): the <<key, value>> pairs of a
\* query string, in order
ParseQuery(query) ==
  IF query = <<>> THEN <<>>
  ELSE LET fields == SplitOn(query, "&")
       IN  [i \in 1..Len(fields) |->
              LET kv == SplitOn(fields[i], "=")
              IN  <<unquote_plus(kv[1]), IF Len(kv) >= 2 THEN unquote_plus(kv[2]) ELSE <<"?">>>>]

\* the text a parameter value is to be sent as
QueryText(v) ==
  CASE v = PyBool(TRUE) -> <<"t", "r", "u", "e">>
    [] v = PyBool(FALSE) -> <<"f", "a", "l", "s", "e">>
    [] v = PyInt(12) -> <<"1", "2">>
    [] OTHER -> v[2]

\* the pairs a query string is to carry for the keyword arguments kwargs:
\* every key that is not None, with its value, booleans as true and false
QueryPairs(kwargs) ==
  LET kept == SelectSeq(kwargs, LAMBDA kv : kv[2] # PyNone)
  IN  [i \in 1..Len(kept) |-> <<kept[i][1], QueryText(kept[i][2])>>]

\* the query string of the request of the last step carries the keyword
\* arguments kwargs
QueryCarries(kwargs) == ParseQuery(last.request.query) = QueryPairs(kwargs)

\* C8: the query string of the request of a read operation called with
\* keyword arguments has no key whose value is None, has true or false for
\* every boolean value, and has every other key with its value.
C8_QueryCarriesParameters ==
  /\ (last.op \in {"get_account_settings", "get_notification"} /\ last.request # NoRequest) =>
       QueryCarries(last.args.kwargs)
  /\ (/\ last.op = "next"
      /\ gen.op \in {"get_balances", "get_payments", "get_trustlines"}
      /\ last.request # NoRequest) => QueryCarries(gen.args.kwargs)

\* the same for the operations that hand their keyword arguments to
\* _request: get_notification, get_balances, get_payments, get_trustlines
QueryCarriesForwardedParameters ==
  /\ (last.op = "get_notification" /\ last.request # NoRequest) =>
       QueryCarries(last.args.kwargs)
  /\ (/\ last.op = "next"
      /\ gen.op \in {"get_balances", "get_payments", "get_trustlines"}
      /\ last.request # NoRequest) => QueryCarries(gen.args.kwargs)

\* C9: when the balances request succeeded with n records, get_balances
\* raises nothing but the StopIteration that ends it, and once consumed it has
\* yielded n Balance objects in the order of the records, each with the
\* fields of its record and with issuer the issuer of the record if it has
\* one, the queried address otherwise.
C9_BalancesYielded ==
  (gen.op = "get_balances" /\ gen.fetched) =>
    /\ gen.exc \in {"none", "StopIteration"}
    /\ gen.pc = "finished" =>
         /\ Len(gen.yielded) = Len(gen.items)
         /\ \A i \in 1..Len(gen.items) :
              LET record == gen.items[i][2]
                  balance == gen.yielded[i]
              IN  /\ PyType(balance) = "Balance"
                  /\ \A k \in DOMAIN record : k \in DOMAIN balance[2] /\ balance[2][k] = record[k]
                  /\ balance[2]["issuer"] = IF "issuer" \in DOMAIN record THEN record["issuer"]
                                            ELSE PyStr(gen.args.address)

(***************************************************************************)
(* Payment with a required field missing                                   *)
(***************************************************************************)
PaymentRequired == {"source_account", "destination_account", "destination_amount"}

\* the last step built a Payment from arguments that miss a required field:
\* the caller did, or get_payment, get_payments or get_paths did from the
\* payload of a successful response
BuiltPaymentWithMissingField ==
  \/ last.op = "Payment" /\ ~(PaymentRequired \subseteq DOMAIN last.args.kwargs)
  \/ /\ last.op = "get_payment"
     /\ last.reply.kind = "return"
     /\ "payment" \in DOMAIN last.reply.value[2]
     /\ ~(PaymentRequired \subseteq DOMAIN last.reply.value[2]["payment"][2])
  \/ /\ last.op = "next"
     /\ gen.op \in {"get_payments", "get_paths"}
     /\ gen.fetched
     /\ gen.idx \in 1..Len(gen.items)
     /\ LET item == gen.items[gen.idx][2]
        IN  ~(PaymentRequired \subseteq
                DOMAIN (IF gen.op = "get_payments" THEN item["payment"][2] ELSE item))

\* C10: building a Payment with a required field missing raises TypeError,
\* the error of Python for a call without a required argument, which is not
\* RippleRESTException.
C10_MissingFieldIsTypeError ==
  BuiltPaymentWithMissingField =>
    /\ last.outcome.kind = "raise"
    /\ last.outcome.exc = "TypeError"
    /\ last.outcome.exc # RippleRESTException

\* C10 as claimed: building a Payment with a required field missing raises
\* ConstructionError, an error kind of its own.
C10_MissingFieldIsConstructionError ==
  BuiltPaymentWithMissingField =>
    /\ last.outcome.kind = "raise"
    /\ last.outcome.exc = "ConstructionError"
    /\ last.outcome.exc # RippleRESTException

\* get_payments yielded one payment and raised on the second record, whose
\* payment has no destination_amount
C10_Witness ==
  /\ BuiltPaymentWithMissingField
  /\ last.op = "next"
  /\ gen.op = "get_payments"
  /\ gen.idx = 2
  /\ Len(gen.yielded) = 1
  /\ last.outcome.kind = "raise"

(***************************************************************************)
(* The entity constructors on their own: a caller builds an Amount, a      *)
(* Balance or a Payment from keyword arguments                             *)
(***************************************************************************)
\* the values a caller gives for value: 0.000001, 0.0001, 0.0000025, 1.5,
\* 12 and '0.000001'
EntityValues ==
  {PyFloat(1, 6), PyFloat(1, 4), PyFloat(25, 7), PyFloat(15, 1), PyInt(12), PyStr("0.000001")}

\* the keyword arguments a caller gives Amount and Balance: issuer and
\* counterparty left out, None, or an address
EntityArgs ==
  LET Optional(k) == {EmptyDict} \cup {[x \in {k} |-> v] : v \in {PyNone, PyStr("rGate")}}
  IN  {DictUpdate(DictUpdate([value |-> v, currency |-> PyStr(c)], i), cp) :
         v \in EntityValues, c \in {"XRP", "USD"},
         i \in Optional("issuer"), cp \in Optional("counterparty")}

NewAmount ==
  \E a \in EntityArgs :
    Plain("Amount", [kwargs |-> a], Local(client, Amount(a, PyDict(EmptyDict))))

NewBalance ==
  \E a \in EntityArgs :
    Plain("Balance", [kwargs |-> a], Local(client, Balance(a, PyDict(EmptyDict))))

NextEntities ==
  \/ NewAmount
  \/ NewBalance
  \/ NewPayment

SpecEntities == Init /\ [][NextEntities]_vars

\* the decimal text of a value: its digits with a decimal point and no
\* exponent for a float, its digits for an int, itself for a string
DecimalText(v) ==
  CASE PyType(v) = "float" -> PyStr(FixedPoint(v[2], v[3]))
    [] PyType(v) = "int" -> PyStr(ToString(v[2]))
    [] OTHER -> v

\* the last step built an Amount, or a Balance, with no issuer or issuer None
NoIssuerGiven == ArgOrNone(last.args.kwargs, "issuer") = PyNone
NoCounterpartyGiven == ArgOrNone(last.args.kwargs, "counterparty") = PyNone

\* C11: an Amount built without an issuer (or with issuer None) has for
\* value the decimal text of the value given, 0.000001 giving '0.000001', has
\* the currency given, and has no issuer key.
C11_AmountValueIsDecimalText ==
  (last.op = "Amount" /\ NoIssuerGiven) =>
    /\ last.outcome.kind = "return"
    /\ PyType(last.outcome.value) = "Amount"
    /\ last.outcome.value[2]["value"] = DecimalText(last.args.kwargs["value"])
    /\ last.outcome.value[2]["currency"] = last.args.kwargs["currency"]
    /\ "issuer" \notin DOMAIN last.outcome.value[2]

\* the part of it that does not depend on how a float is written: the value
\* is a str and there is no issuer key
AmountValueIsStrWithoutIssuerKey ==
  (last.op = "Amount" /\ NoIssuerGiven) =>
    /\ last.outcome.kind = "return"
    /\ PyType(last.outcome.value[2]["value"]) = "str"
    /\ "issuer" \notin DOMAIN last.outcome.value[2]

\* C12: a Balance built with issuer None (counterparty None) has the key
\* issuer (counterparty) with value None, and its value is a str whatever
\* value was given.
C12_BalanceNullKeysAndStrValue ==
  last.op = "Balance" =>
    /\ last.outcome.kind = "return"
    /\ PyType(last.outcome.value) = "Balance"
    /\ NoIssuerGiven =>
         /\ "issuer" \in DOMAIN last.outcome.value[2]
         /\ last.outcome.value[2]["issuer"] = PyNone
    /\ NoCounterpartyGiven =>
         /\ "counterparty" \in DOMAIN last.outcome.value[2]
         /\ last.outcome.value[2]["counterparty"] = PyNone
    /\ PyType(last.outcome.value[2]["value"]) = "str"

\* the part of it about the keys: issuer and counterparty are always present
BalanceKeysAlwaysPresent ==
  last.op = "Balance" =>
    /\ last.outcome.kind = "return"
    /\ {"issuer", "counterparty"} \subseteq DOMAIN last.outcome.value[2]
    /\ NoIssuerGiven => last.outcome.value[2]["issuer"] = PyNone
    /\ NoCounterpartyGiven => last.outcome.value[2]["counterparty"] = PyNone

\* the secret is the value of no attribute of the Client
SecretInNoAttribute(self, secret) == \A k \in DOMAIN self : self[k] # secret

\* C13: after a write operation returned or raised, the Client is as it
\* was before the call and no attribute of it holds the secret, and the
\* Payment or Trustline the caller passed has exactly the keys and values
\* it had before the call, secret not among its keys.
C13_SecretNotRetained ==
  last.op \in WriteOps =>
    /\ client = last.pre
    /\ SecretInNoAttribute(client, last.args.secret)
    /\ last.op = "post_payment" =>
         last.passed = last.args.payment /\ "secret" \notin DOMAIN last.passed[2]
    /\ last.op = "post_trustline" =>
         last.passed = last.args.trustline /\ "secret" \notin DOMAIN last.passed[2]

\* a post_payment that sent the secret in its body and failed
C13_Witness ==
  /\ last.op = "post_payment"
  /\ last.outcome.kind = "raise"
  /\ last.request.body[2][2]["secret"] = ToJson(last.args.secret)
  /\ last.passed = last.args.payment

GeneratorOps == {"get_balances", "get_paths", "get_payments", "get_trustlines"}

\* C14: a list-returning operation issues its one request when it is
\* invoked: once it was invoked exactly one request has been issued, however
\* many items were consumed, and consuming an item issues no request and
\* raises no RippleRESTException.
C14_OneRequestAtInvocation ==
  /\ gen.op \in GeneratorOps => gen.requests = 1
  /\ last.op = "next" => last.request = NoRequest /\ ~IsRemoteError(last.outcome)

\* what holds of them: no request is issued by the invocation, at most one
\* by the generator, and one once the list was fetched
GeneratorRequestsAtMostOnce ==
  gen.op \in GeneratorOps =>
    /\ gen.requests <= 1
    /\ gen.pc = "created" => gen.requests = 0
    /\ gen.fetched => gen.requests = 1
    /\ last.op \in GeneratorOps => last.request = NoRequest /\ last.outcome.kind = "return"

\* and only the first next() of a generator issues a request
OnlyFirstNextIssuesRequest ==
  [][(last'.op = "next" /\ gen.pc # "created") =>
       (last'.request = NoRequest /\ gen'.requests = gen.requests)]_vars

\* the last step was the first next() of a get_paths generator
FirstNextOfGetPaths == last.op = "next" /\ gen.op = "get_paths" /\ gen.idx <= 1

\* the path get_paths is to request for the arguments of the generator:
\* value 1 and currency USD, with the issuer when there is one
PathsPath ==
  "/v1/accounts/" \o gen.args.address \o "/payments/paths/" \o gen.args.destination_account
    \o "/" \o (IF gen.args.issuer = PyNone THEN "1+USD" ELSE "1+USD+" \o gen.args.issuer[2])

\* the query pairs for source_currencies = [('USD', 'rGate')]
PathsQueryPairs ==
  << <<<<"s", "o", "u", "r", "c", "e", "_", "c", "u", "r", "r", "e", "n", "c", "i", "e", "s">>,
       <<"U", "S", "D", " ", "r", "G", "a", "t", "e">>>> >>

\* C15: get_paths requests accounts/{src}/payments/paths/{dst}/{amount},
\* amount the present values of (value, currency, issuer) joined with '+';
\* with source_currencies given the query is source_currencies = the
\* space-joined entries, without it there is no query.
C15_PathsRequest ==
  FirstNextOfGetPaths =>
    /\ last.request # NoRequest
    /\ last.request.path = PathsPath
    /\ IF gen.args.source_currencies = PyNone THEN last.request.query = <<>>
       ELSE ParseQuery(last.request.query) = PathsQueryPairs

\* what holds of it: without source_currencies the path is as described,
\* there is no query, and a response of complete candidates gives one
\* Payment per candidate
PathsRequestWithoutSourceCurrencies ==
  (gen.op = "get_paths" /\ gen.args.source_currencies = PyNone) =>
    /\ FirstNextOfGetPaths =>
         /\ last.request # NoRequest
         /\ last.request.path = PathsPath
         /\ last.request.query = <<>>
    /\ (gen.pc = "finished" /\ gen.exc = "StopIteration") =>
         /\ Len(gen.yielded) = Len(gen.items)
         /\ \A i \in 1..Len(gen.yielded) : PyType(gen.yielded[i]) = "Payment"

====
